---- MODULE Spec2Model ----
(***************************************************************************)
(* Traefik -> Cloudflare tunnel/DNS synchroniser (src/main.py).           *)
(*                                                                         *)
(* Strings that the code splits are kept as sequences of their pieces: a   *)
(* hostname is the sequence of its labels ("a.ex.com" is <<"a","ex",       *)
(* "com">>), a URL is the sequence of its separators and the text between  *)
(* them, a router rule is the sequence of its matcher calls.               *)
(***************************************************************************)
EXTENDS Integers, Sequences, FiniteSets, TLC

VARIABLES
    pc,                    \* position of CloudflareSyncer.run in its loop
    poll_interval,         \* Config.poll_interval
    router_cache,          \* self._router_cache
    consecutive_failures,  \* run: consecutive_failures
    local_domains,         \* self.local_domains
    routers,               \* run: routers (result of get_routers, this pass)
    domains,               \* run: domains (list(set), this pass)
    zones,                 \* run: zones (this pass)
    domain_matches,        \* run: domain_matches (insertion-ordered dict)
    account_domains,       \* create_tunnel_config: account_domains
    acc_idx,               \* create_tunnel_config: position of the account loop
    dom_idx,               \* create_tunnel_config: position of the DNS loop
    tunnel,                \* provider: tunnel configuration per account
    dns,                   \* provider: DNS records per (zone, name, type)
    calls,                 \* provider calls issued in the current pass
    handled,               \* errors that reached the per-account handler, this pass
    skip,                  \* why the pass went to sleep
    wait_time,             \* argument of the time.sleep that ends the pass
    owed,                  \* writes that failed in the last pass that fetched routes
    synced,                \* DNS keys whose last write by the syncer succeeded
    streak,                \* failures since the last fetch that returned routes
    zones_owed,            \* the zone listing failed the last time it was called
    fetched                \* get_routers: routers (the body of the response, this pass)

vars == <<pc, poll_interval, router_cache, consecutive_failures, local_domains,
          routers, domains, zones, domain_matches, account_domains, acc_idx,
          dom_idx, tunnel, dns, calls, handled, skip, wait_time, owed, synced,
          streak, zones_owed, fetched>>

---------------------------------------------------------------------------
(* Bounds of the model *)

\* consecutive failed polls explored before the route source answers again
MaxFailures == 2

(* Program constants *)

max_retries == 3          \* retry_context(max_retries = 3)
cap_backoff == 20         \* min(20, ...) in run

---------------------------------------------------------------------------
(* Generic helpers *)

Range(s) == {s[i] : i \in DOMAIN s}

Contains(s, x) == \E i \in DOMAIN s : s[i] = x

\* index of the first occurrence of x in s (x occurs in s)
FirstIndex(s, x) == CHOOSE i \in DOMAIN s : s[i] = x /\ \A j \in 1..(i - 1) : s[j] # x

Min(a, b) == IF a <= b THEN a ELSE b

RECURSIVE Pow2(_)
Pow2(n) == IF n = 0 THEN 1 ELSE 2 * Pow2(n - 1)

RECURSIVE Flatten(_)
Flatten(ss) == IF ss = <<>> THEN <<>> ELSE Head(ss) \o Flatten(Tail(ss))

\* all orders in which the elements of a finite set can be listed
Perms(S) == {p \in [1..Cardinality(S) -> S] : \A i, j \in DOMAIN p : i # j => p[i] # p[j]}

---------------------------------------------------------------------------
(* Configuration (Config.from_env) *)

traefik_entrypoints == <<"web", "local">>
traefik_service_endpoint == <<"http", "://", "10.0.0.5", ":", "8080", "/", "api">>
cloudflare_tunnel_id == "T1"
skip_tls_routes == TRUE
\* POLL_INTERVAL values the model is started with
PollIntervals == {6}

\* extract_host: the URL without scheme, path and port
extract_host(url) ==
    IF url = <<>> THEN url
    ELSE LET u1 == IF Contains(url, "://")
                   THEN SubSeq(url, FirstIndex(url, "://") + 1, Len(url))
                   ELSE url
             u2 == IF Contains(u1, "/")
                   THEN SubSeq(u1, 1, FirstIndex(u1, "/") - 1)
                   ELSE u1
             u3 == IF Contains(u2, ":")
                   THEN SubSeq(u2, 1, FirstIndex(u2, ":") - 1)
                   ELSE u2
         IN u3

local_endpoint == extract_host(traefik_service_endpoint)

---------------------------------------------------------------------------
(* The environment: what the proxy and the provider may answer *)

HostA == <<"a", "sub", "ex", "com">>
HostB == <<"b", "ex", "com">>
HostC == <<"c", "ex", "com">>
HostD == <<"lan">>

NoTls == [certResolver |-> "", options |-> "", domains |-> <<>>]
LeTls == [certResolver |-> "le", options |-> "", domains |-> <<"ex.com">>]

\* one matcher call of a rule: fn(arg, arg, ...); an argument is its text and
\* whether it is written between backticks
HostCall(hs) == [fn |-> "Host", args |-> [i \in DOMAIN hs |-> [quoted |-> TRUE, text |-> hs[i]]]]
PathCall(h) == [fn |-> "PathPrefix", args |-> <<[quoted |-> TRUE, text |-> h]>>]
BareCall(h) == [fn |-> "Host", args |-> <<[quoted |-> FALSE, text |-> h]>>]

Route(name, status, eps, rule, tls) ==
    [name |-> name, status |-> status, entryPoints |-> eps, rule |-> rule, tls |-> tls]

RTlsA    == Route("tlsA", "enabled", <<"web">>, <<HostCall(<<HostA>>)>>, LeTls)
RLocB    == Route("locB", "enabled", <<"web", "local">>, <<HostCall(<<HostB>>)>>, NoTls)
RPubB    == Route("pubB", "enabled", <<"web">>, <<HostCall(<<HostB>>)>>, NoTls)
RPubBC   == Route("pubBC", "enabled", <<"web">>,
                  <<HostCall(<<HostB>>), PathCall(HostD), HostCall(<<HostC>>)>>, NoTls)
RPubAD   == Route("pubAD", "enabled", <<"web">>, <<HostCall(<<HostA, HostD>>)>>, NoTls)
ROffA    == Route("offA", "disabled", <<"web">>, <<HostCall(<<HostA>>)>>, NoTls)
ROtherB  == Route("otherB", "enabled", <<"internal">>, <<HostCall(<<HostB>>)>>, NoTls)
RBareA   == Route("bareA", "enabled", <<"web">>, <<BareCall(HostA)>>, NoTls)
RDash    == Route("dashboard", "enabled", <<"traefik">>, <<HostCall(<<HostC>>)>>, NoTls)
RNoEp    == Route("noEp", "enabled", <<>>, <<HostCall(<<HostB>>)>>, NoTls)
ROfficeD == Route("officeD", "enabled", <<"office", "web">>, <<HostCall(<<HostD>>)>>, NoTls)

\* bodies of GET /api/http/routers
RawRouteLists ==
    { <<RDash, RPubAD, RTlsA, ROfficeD>>,
      <<RTlsA, RLocB, RPubB>>,
      <<RPubBC, RPubB>>,
      <<ROffA, ROtherB, RBareA>>,
      <<RDash, RNoEp>> }

Zone(id, name, acc) == [id |-> id, name |-> name, account |-> [id |-> acc, name |-> acc]]

ZEx  == Zone("Z1", <<"ex", "com">>, "A1")
ZSub == Zone("Z2", <<"sub", "ex", "com">>, "A2")
ZCom == Zone("Z3", <<"com">>, "A1")
ZOrg == Zone("Z4", <<"other", "org">>, "A2")

\* answers of zones.list()
ZoneLists == { <<>>, <<ZEx, ZSub>>, <<ZCom, ZEx>>, <<ZOrg, ZCom>> }

ZoneIds == {"Z1", "Z2", "Z3", "Z4"}
Accounts == {"A1", "A2"}
Hosts == {HostA, HostB, HostC, HostD}
RecordTypes == {"CNAME", "A"}

Key(zone_id, name, type) == <<zone_id, name, type>>
Keys == ZoneIds \X Hosts \X RecordTypes

tunnel_content == <<cloudflare_tunnel_id, "cfargotunnel", "com">>

Rec(id, content, proxied) == [id |-> id, content |-> content, proxied |-> proxied]

NoRecords == [k \in Keys |-> <<>>]

\* states of the zones before the syncer starts
InitialDns ==
    { NoRecords,
      [NoRecords EXCEPT ![Key("Z2", HostA, "CNAME")] = <<Rec(1, <<"old", "example">>, TRUE)>>,
                        ![Key("Z1", HostB, "CNAME")] = <<Rec(1, tunnel_content, FALSE)>>,
                        ![Key("Z1", HostB, "A")] =
                            <<Rec(1, <<"192.168.0.9">>, FALSE), Rec(2, <<"192.168.0.7">>, TRUE)>>] }

---------------------------------------------------------------------------
(* TraefikClient.get_routers *)

\* a response of the proxy: the request failed, or a body
FetchOutcomes == {[ok |-> FALSE, body |-> <<>>]} \cup {[ok |-> TRUE, body |-> b] : b \in RawRouteLists}

KeepsRouter(router) ==
    \E i \in DOMAIN router.entryPoints : router.entryPoints[i] # "traefik"

get_routers(resp) ==
    IF resp.ok THEN SelectSeq(resp.body, KeepsRouter) ELSE <<>>

---------------------------------------------------------------------------
(* Hostname extraction and classification (run, "Extract domains") *)

has_tls_enabled(router) ==
    /\ router.tls.certResolver # ""
    /\ (router.tls.options # "" \/ router.tls.domains # <<>>)

has_matching_entrypoint(router_eps) ==
    IF traefik_entrypoints = <<>> THEN TRUE
    ELSE \E i \in DOMAIN router_eps : Contains(traefik_entrypoints, router_eps[i])

\* re.findall(r'Host\(([^)]+)\)', rule), then the backtick-quoted items of each call
QuotedArgs(call) ==
    LET quoted == SelectSeq(call.args, LAMBDA item : item.quoted)
    IN [i \in DOMAIN quoted |-> quoted[i].text]

HostArgs(rule) ==
    LET host_calls == SelectSeq(rule, LAMBDA call : call.fn = "Host" /\ call.args # <<>>)
    IN Flatten([i \in DOMAIN host_calls |-> QuotedArgs(host_calls[i])])

\* variant: the `continue` of the TLS test is in force
RouterContributes_skip_tls(router) ==
    /\ router.status = "enabled"
    /\ ~(skip_tls_routes /\ has_tls_enabled(router))
    /\ has_matching_entrypoint(router.entryPoints)

\* the router passes the two `continue` tests of the extraction loop
RouterContributes(router) ==
    /\ router.status = "enabled"
    /\ has_matching_entrypoint(router.entryPoints)

IsLocalRouter(router) ==
    Contains(router.entryPoints, "local") \/ Contains(router.entryPoints, "office")

ExtractDomains(rs) ==
    UNION {Range(HostArgs(rs[i].rule)) : i \in {j \in DOMAIN rs : RouterContributes(rs[j])}}

ExtractLocalDomains(rs) ==
    UNION {Range(HostArgs(rs[i].rule)) :
              i \in {j \in DOMAIN rs : RouterContributes(rs[j]) /\ IsLocalRouter(rs[j])}}

---------------------------------------------------------------------------
(* CloudflareSyncer.match_domains_with_zones *)

\* zone_map = {zone['name']: zone for zone in zones}: a later zone of the same
\* name replaces an earlier one
ZoneMapHas(zs, name) == \E i \in DOMAIN zs : zs[i].name = name
ZoneMapGet(zs, name) ==
    zs[CHOOSE i \in DOMAIN zs : zs[i].name = name /\ \A j \in (i + 1)..Len(zs) : zs[j].name # name]

\* '.'.join(parts[i:]) for i in range(len(parts) - 1)
possible_domains(domain) ==
    [i \in 1..(Len(domain) - 1) |-> SubSeq(domain, i, Len(domain))]

\* variant: the candidates are tried from the shortest to the longest
FirstHit_shortest(cands, zs) ==
    CHOOSE i \in DOMAIN cands :
        ZoneMapHas(zs, cands[i]) /\ \A j \in (i + 1)..Len(cands) : ~ZoneMapHas(zs, cands[j])

FirstHit(cands, zs) ==
    CHOOSE i \in DOMAIN cands :
        ZoneMapHas(zs, cands[i]) /\ \A j \in 1..(i - 1) : ~ZoneMapHas(zs, cands[j])

HasMatch(domain, zs) ==
    \E i \in DOMAIN possible_domains(domain) : ZoneMapHas(zs, possible_domains(domain)[i])

MatchOf(domain, zs) ==
    LET cands == possible_domains(domain)
        matched_domain == cands[FirstHit(cands, zs)]
        matched_zone == ZoneMapGet(zs, matched_domain)
    IN [domain |-> domain,
        zone_id |-> matched_zone.id,
        account_id |-> matched_zone.account.id,
        account_name |-> matched_zone.account.name,
        root_domain |-> matched_domain]

\* the keys of a dict filled in the order of ks: a key keeps the position of
\* its first insertion
RECURSIVE DictKeys(_, _)
DictKeys(ks, seen) ==
    IF ks = <<>> THEN <<>>
    ELSE IF Head(ks) \in seen THEN DictKeys(Tail(ks), seen)
    ELSE <<Head(ks)>> \o DictKeys(Tail(ks), seen \cup {Head(ks)})

\* the dict returned, as the sequence of its items in insertion order
match_domains_with_zones(ds, zs) ==
    LET hit == DictKeys(SelectSeq(ds, LAMBDA d : HasMatch(d, zs)), {})
    IN [i \in DOMAIN hit |-> MatchOf(hit[i], zs)]

---------------------------------------------------------------------------
(* CloudflareSyncer.create_tunnel_config: grouping and planning *)

\* variant: every match is put under the account of the first one
GroupByAccount_one_account(ms) ==
    <<[account_id |-> ms[1].account_id,
       account_name |-> ms[1].account_name,
       domains |-> [j \in DOMAIN ms |-> ms[j].domain],
       zone_configs |-> ms]>>

\* account_domains, a dict keyed by account id, as the sequence of its values
GroupByAccount(ms) ==
    LET order == DictKeys([i \in DOMAIN ms |-> ms[i].account_id], {})
        of(acc) == SelectSeq(ms, LAMBDA m : m.account_id = acc)
    IN [i \in DOMAIN order |->
           [account_id |-> order[i],
            account_name |-> of(order[i])[1].account_name,
            domains |-> [j \in DOMAIN of(order[i]) |-> of(order[i])[j].domain],
            zone_configs |-> of(order[i])]]

IngressRule(domain) ==
    [hostname |-> domain,
     service |-> traefik_service_endpoint,
     originRequest |-> [noTLSVerify |-> TRUE, httpHostHeader |-> domain,
                        originServerName |-> domain]]

CatchAll == [service |-> "http_status:404"]

\* variant: the local/office test of the ingress loop is missing
InIngress_all(domain, locals) == TRUE

\* the rule is added for this domain (the `continue` of the ingress loop)
InIngress(domain, locals) == domain \notin locals

\* variant: the catch-all is appended only when no hostname rule was planned
BuildIngress_catchall_if_empty(ds, locals) ==
    LET public == SelectSeq(ds, LAMBDA d : InIngress(d, locals))
    IN IF public = <<>> THEN <<CatchAll>> ELSE [i \in DOMAIN public |-> IngressRule(public[i])]

BuildIngress(ds, locals) ==
    LET public == SelectSeq(ds, LAMBDA d : InIngress(d, locals))
    IN [i \in DOMAIN public |-> IngressRule(public[i])] \o <<CatchAll>>

\* the record the DNS sync wants for a domain
DesiredRecord(domain, locals) ==
    IF domain \in locals
    THEN [type |-> "A", content |-> local_endpoint, proxied |-> FALSE]
    ELSE [type |-> "CNAME", content |-> tunnel_content, proxied |-> TRUE]

\* variant: the proxied flag is not compared
needs_update_content_only(rec, desired) == rec.content # desired.content

\* variant: `and` in place of `or`
needs_update_both(rec, desired) ==
    (rec.content # desired.content) /\ (rec.proxied # desired.proxied)

needs_update(rec, desired) ==
    (rec.content # desired.content) \/ (rec.proxied # desired.proxied)

\* variant: the call leaves `proxied` to a default of true
WrittenRecord_proxied_default(id, desired) == Rec(id, desired.content, TRUE)

\* the record a records.create / records.update call sends
WrittenRecord(id, desired) == Rec(id, desired.content, desired.proxied)

---------------------------------------------------------------------------
(* retry_context is a @contextmanager generator: `for i in range(3): try:   *)
(* yield; break; except: ...`. The `with` statement runs its body once, at *)
(* the generator's first yield (i = 0). When the body raises, contextlib   *)
(* throws the exception into the generator: the except clause re-raises it *)
(* when i = max_retries - 1, and otherwise sleeps 2 ** i and lets the loop *)
(* reach `yield` again. A generator that yields after a throw makes        *)
(* contextlib's __exit__ raise RuntimeError("generator didn't stop after   *)
(* throw()"): the body is not run a second time.                           *)

\* what the generator does with an exception thrown in at its yield number i
GeneratorThrow(i) ==
    IF i = max_retries - 1
    THEN [ends |-> "reraise", slept |-> <<>>]
    ELSE [ends |-> "yield", slept |-> <<Pow2(i)>>]

\* what leaving the `with retry_context():` block does: the exception that
\* comes out of it ("" for none), the sleeps made, and how often the body ran
retry_context(failed) ==
    IF ~failed THEN [raised |-> "", slept |-> <<>>, attempts |-> 1]
    ELSE IF GeneratorThrow(0).ends = "reraise"
         THEN [raised |-> "error", slept |-> GeneratorThrow(0).slept, attempts |-> 1]
         ELSE [raised |-> "RuntimeError", slept |-> GeneratorThrow(0).slept, attempts |-> 1]

---------------------------------------------------------------------------
(* Provider calls, as logged for the current pass *)

Call(op, ok, account, zone, name, type, content, proxied, id, ingress, found, resync) ==
    [op |-> op, ok |-> ok, account |-> account, zone |-> zone, name |-> name,
     type |-> type, content |-> content, proxied |-> proxied, id |-> id,
     ingress |-> ingress, found |-> found, resync |-> resync]

ZonesListCall(ok) ==
    Call("zones.list", ok, "", "", <<>>, "", <<>>, FALSE, 0, <<>>, <<>>, FALSE)
TunnelGetCall(ok, account) ==
    Call("tunnel.get", ok, account, "", <<>>, "", <<>>, FALSE, 0, <<>>, <<>>, FALSE)
\* resync: the configuration got just before already was the one sent
TunnelUpdateCall(ok, account, ingress, current) ==
    Call("tunnel.update", ok, account, "", <<>>, "", <<>>, FALSE, 0, ingress, <<>>,
         current = ingress)
DnsListCall(ok, m, desired, found, resync) ==
    Call("dns.list", ok, m.account_id, m.zone_id, m.domain, desired.type, <<>>, FALSE, 0,
         <<>>, found, resync)
DnsCreateCall(ok, m, desired) ==
    Call("dns.create", ok, m.account_id, m.zone_id, m.domain, desired.type,
         WrittenRecord(0, desired).content, WrittenRecord(0, desired).proxied, 0,
         <<>>, <<>>, FALSE)
DnsUpdateCall(ok, m, desired, id) ==
    Call("dns.update", ok, m.account_id, m.zone_id, m.domain, desired.type,
         WrittenRecord(id, desired).content, WrittenRecord(id, desired).proxied, id,
         <<>>, <<>>, FALSE)

IsDnsWrite(c) == c.op \in {"dns.create", "dns.update"}
IsWrite(c) == IsDnsWrite(c) \/ c.op = "tunnel.update"

\* what a write is about: an account's tunnel, or a hostname's record
WriteId(c) ==
    IF c.op = "tunnel.update" THEN [kind |-> "tunnel", account |-> c.account, name |-> <<>>]
    ELSE [kind |-> "dns", account |-> c.account, name |-> c.name]

FailedWrites(cs) == {WriteId(cs[i]) : i \in {j \in DOMAIN cs : IsWrite(cs[j]) /\ ~cs[j].ok}}
AttemptedWrites(cs) == {WriteId(cs[i]) : i \in {j \in DOMAIN cs : IsWrite(cs[j])}}

---------------------------------------------------------------------------
(* CloudflareSyncer.run *)

InitialTunnels ==
    { [a \in Accounts |-> IF a = "A2" THEN <<IngressRule(HostA), CatchAll>>
                          ELSE <<IngressRule(HostC), CatchAll>>] }

Init ==
    /\ pc = "Polling"
    /\ poll_interval \in PollIntervals
    /\ router_cache = <<>>
    /\ consecutive_failures = 0
    /\ local_domains = {}
    /\ routers = <<>>
    /\ domains = <<>>
    /\ zones = <<>>
    /\ domain_matches = <<>>
    /\ account_domains = <<>>
    /\ acc_idx = 0
    /\ dom_idx = 0
    /\ tunnel \in InitialTunnels
    /\ dns \in InitialDns
    /\ calls = <<>>
    /\ handled = <<>>
    /\ skip = ""
    /\ wait_time = 0
    /\ owed = {}
    /\ synced = {}
    /\ streak = [fetch |-> 0, loop |-> 0]
    /\ zones_owed = FALSE
    /\ fetched = <<>>

\* variant: the backoff without the cap
Backoff_uncapped(failures) == poll_interval * Pow2(failures)

\* min(20, poll_interval * 2 ** consecutive_failures)
Backoff(failures) == Min(cap_backoff, poll_interval * Pow2(failures))

\* variant: only a missing answer counts as "no routers" (`if routers is None`)
NoRouters_only_none(rs) == FALSE

\* `if not routers`
NoRouters(rs) == rs = <<>>

\* variant: the snapshot is compared by identity (`routers is self._router_cache`)
Unchanged_by_identity(rs, cache) == FALSE

\* `if routers == self._router_cache`
Unchanged(rs, cache) == rs = cache

\* time.sleep(...); continue
SleepFor(reason, t) ==
    /\ pc' = "Sleeping"
    /\ skip' = reason
    /\ wait_time' = t

\* variant: the loop's handler lets the exception go (`raise`), which ends run
LoopHandler_reraise ==
    /\ pc' = "Exited"
    /\ skip' = "error"
    /\ wait_time' = 0
    /\ UNCHANGED consecutive_failures

\* `except Exception` of the loop: count the failure, sleep the backoff, continue
LoopHandler ==
    /\ consecutive_failures' = consecutive_failures + 1
    /\ SleepFor("error", Backoff(consecutive_failures + 1))

\* variant: the markers of the previous pass are kept
PassStartLocalDomains_kept == local_domains

\* `self.local_domains = set()` at the start of an iteration
PassStartLocalDomains == {}

\* random.uniform(0, poll_interval / 2): the two ends of the interval
Jitters == {0, poll_interval \div 2}

\* one iteration of the loop, from the fetch to the end of the extraction
Poll ==
    /\ pc = "Polling"
    /\ \E resp \in FetchOutcomes :
        LET rs == get_routers(resp) IN
        /\ routers' = rs
        /\ fetched' = resp.body
        /\ IF NoRouters(rs)
           THEN /\ consecutive_failures < MaxFailures
                /\ consecutive_failures' = consecutive_failures + 1
                /\ SleepFor("no_routers", Backoff(consecutive_failures + 1))
                /\ streak' = [streak EXCEPT !.fetch = @ + 1]
                /\ UNCHANGED <<router_cache, domains, local_domains>>
           ELSE /\ consecutive_failures' = 0
                /\ streak' = [fetch |-> 0, loop |-> 0]
                /\ IF Unchanged(rs, router_cache)
                   THEN /\ SleepFor("unchanged", poll_interval)
                        /\ UNCHANGED <<router_cache, domains, local_domains>>
                   ELSE /\ router_cache' = rs
                        /\ local_domains' = local_domains \cup ExtractLocalDomains(rs)
                        /\ domains' \in Perms(ExtractDomains(rs))
                        /\ IF domains' = <<>>
                           THEN SleepFor("no_domains", poll_interval)
                           ELSE pc' = "GetZones" /\ UNCHANGED <<skip, wait_time>>
    /\ UNCHANGED <<poll_interval, zones, domain_matches, account_domains, acc_idx, dom_idx,
                   tunnel, dns, calls, handled, owed, synced, zones_owed>>

\* get_zones, match_domains_with_zones and the grouping by account
GetZones ==
    /\ pc = "GetZones"
    /\ \/ \* zones.list() raises: the loop's handler
          /\ calls' = Append(calls, ZonesListCall(FALSE))
          /\ LoopHandler
          /\ streak' = [streak EXCEPT !.loop = @ + 1]
          /\ zones_owed' = TRUE
          /\ UNCHANGED <<zones, domain_matches, account_domains, acc_idx>>
       \/ \E zs \in ZoneLists :
            LET ms == match_domains_with_zones(domains, zs) IN
            /\ calls' = Append(calls, ZonesListCall(TRUE))
            /\ zones' = zs
            /\ zones_owed' = FALSE
            /\ UNCHANGED <<consecutive_failures, streak>>
            /\ IF zs = <<>>
               THEN /\ SleepFor("no_zones", poll_interval)
                    /\ UNCHANGED <<domain_matches, account_domains, acc_idx>>
               ELSE /\ domain_matches' = ms
                    /\ IF ms = <<>>
                       THEN /\ SleepFor("no_match", poll_interval)
                            /\ UNCHANGED <<account_domains, acc_idx>>
                       ELSE /\ account_domains' = GroupByAccount(ms)
                            /\ acc_idx' = 1
                            /\ pc' = "PerAccount"
                            /\ UNCHANGED <<skip, wait_time>>
    /\ UNCHANGED <<poll_interval, router_cache, local_domains, routers, domains, dom_idx,
                   tunnel, dns, handled, owed, synced, fetched>>

\* the account loop moves on; after the last account the pass ends with the
\* jittered sleep
NextAccount ==
    IF acc_idx < Len(account_domains)
    THEN /\ acc_idx' = acc_idx + 1
         /\ dom_idx' = 0
         /\ pc' = "PerAccount"
         /\ UNCHANGED <<skip, wait_time>>
    ELSE /\ UNCHANGED <<acc_idx, dom_idx>>
         /\ \E jitter \in Jitters : SleepFor("", poll_interval + jitter)

\* variant: the error of an account is not caught there and reaches the loop
AfterTunnelError_to_loop ==
    /\ LoopHandler
    /\ UNCHANGED <<acc_idx, dom_idx>>

\* variant: the error is logged where it is raised and the account goes on
\* to its DNS loop
AfterTunnelError_goes_on ==
    /\ pc' = "ReconcileDNS"
    /\ dom_idx' = 1
    /\ UNCHANGED <<acc_idx, skip, wait_time, consecutive_failures>>

\* `except Exception` of the account loop: log, go on with the next account
AfterTunnelError ==
    /\ NextAccount
    /\ UNCHANGED consecutive_failures

\* variant: the hostname rules of the fetched configuration are kept in
\* front of the planned ones
PlannedIngress_keeps_current(current, ds, locals) ==
    SelectSeq(current, LAMBDA rule : "hostname" \in DOMAIN rule
                                     /\ ~Contains(ds, rule.hostname))
        \o BuildIngress(ds, locals)

\* the ingress list sent by the update: `current` is fetched and not read
PlannedIngress(current, ds, locals) == BuildIngress(ds, locals)

\* one account: get the tunnel configuration, plan the ingress, update
TunnelSync ==
    /\ pc = "PerAccount"
    /\ LET acc_data == account_domains[acc_idx]
           account_id == acc_data.account_id
           current == tunnel[account_id]
           ingress == PlannedIngress(current, acc_data.domains, local_domains)
           left(failed) == retry_context(failed)
           error(failed) == [account_id |-> account_id, raised |-> left(failed).raised,
                             attempts |-> left(failed).attempts, slept |-> left(failed).slept]
       IN \/ \* configurations.get raises
             /\ calls' = Append(calls, TunnelGetCall(FALSE, account_id))
             /\ handled' = Append(handled, error(TRUE))
             /\ AfterTunnelError
             /\ UNCHANGED tunnel
          \/ \* configurations.update raises
             /\ calls' = calls \o <<TunnelGetCall(TRUE, account_id),
                                    TunnelUpdateCall(FALSE, account_id, ingress, current)>>
             /\ handled' = Append(handled, error(TRUE))
             /\ AfterTunnelError
             /\ UNCHANGED tunnel
          \/ \* both succeed: on to the DNS sync of the account
             /\ calls' = calls \o <<TunnelGetCall(TRUE, account_id),
                                    TunnelUpdateCall(TRUE, account_id, ingress, current)>>
             /\ tunnel' = [tunnel EXCEPT ![account_id] = ingress]
             /\ dom_idx' = 1
             /\ pc' = "ReconcileDNS"
             /\ UNCHANGED <<handled, acc_idx, skip, wait_time, consecutive_failures>>
    /\ UNCHANGED <<poll_interval, router_cache, local_domains, routers, domains, zones,
                   domain_matches, account_domains, dns, owed, synced, streak, zones_owed,
                   fetched>>

\* the DNS loop moves on; after the last hostname the `with` block is left
NextDomain ==
    IF dom_idx < Len(account_domains[acc_idx].zone_configs)
    THEN /\ dom_idx' = dom_idx + 1
         /\ UNCHANGED <<pc, acc_idx, skip, wait_time>>
    ELSE NextAccount

\* variant: the error of a hostname leaves the DNS loop of its account
AfterDnsError_leaves_loop == NextAccount

\* `except Exception` of the DNS loop: log, go on with the next hostname
AfterDnsError == NextDomain

\* variant: the update rewrites every record of the name and type
RecordsAfterUpdate_all(records, desired) ==
    [n \in DOMAIN records |-> WrittenRecord(records[n].id, desired)]

\* variant: the update leaves the written record alone in the place of the list
RecordsAfterUpdate_replace(records, desired) ==
    <<WrittenRecord(records[1].id, desired)>>

\* dns.records.update with the id of existing_records[0]: the provider
\* rewrites that record
RecordsAfterUpdate(records, desired) ==
    [records EXCEPT ![1] = WrittenRecord(records[1].id, desired)]

\* one hostname of the DNS loop: list, then create, update or nothing
DnsSync ==
    /\ pc = "ReconcileDNS"
    /\ LET m == account_domains[acc_idx].zone_configs[dom_idx]
           desired == DesiredRecord(m.domain, local_domains)
           key == Key(m.zone_id, m.domain, desired.type)
           existing_records == dns[key]
           listed(ok) == DnsListCall(ok, m, desired, existing_records, key \in synced)
       IN \/ \* records.list raises
             /\ calls' = Append(calls, listed(FALSE))
             /\ AfterDnsError
             /\ UNCHANGED <<dns, synced>>
          \/ /\ existing_records = <<>>
             /\ \E ok \in BOOLEAN :
                  /\ calls' = calls \o <<listed(TRUE), DnsCreateCall(ok, m, desired)>>
                  /\ IF ok
                     THEN /\ dns' = [dns EXCEPT ![key] = <<WrittenRecord(1, desired)>>]
                          /\ synced' = synced \cup {key}
                          /\ NextDomain
                     ELSE AfterDnsError /\ UNCHANGED <<dns, synced>>
          \/ /\ existing_records # <<>>
             /\ needs_update(existing_records[1], desired)
             /\ \E ok \in BOOLEAN :
                  /\ calls' = calls \o <<listed(TRUE),
                                         DnsUpdateCall(ok, m, desired, existing_records[1].id)>>
                  /\ IF ok
                     THEN /\ dns' = [dns EXCEPT ![key] =
                                        RecordsAfterUpdate(existing_records, desired)]
                          /\ synced' = synced \cup {key}
                          /\ NextDomain
                     ELSE AfterDnsError /\ UNCHANGED <<dns, synced>>
          \/ /\ existing_records # <<>>
             /\ ~needs_update(existing_records[1], desired)
             /\ calls' = Append(calls, listed(TRUE))
             /\ NextDomain
             /\ UNCHANGED <<dns, synced>>
    /\ UNCHANGED <<poll_interval, router_cache, consecutive_failures, local_domains, routers,
                   domains, zones, domain_matches, account_domains, tunnel, handled, owed,
                   streak, zones_owed, fetched>>

\* the sleep ends and the loop starts its next iteration, which first resets
\* the per-pass markers
Sleep ==
    /\ pc = "Sleeping"
    /\ pc' = "Polling"
    /\ owed' = IF routers # <<>> THEN FailedWrites(calls) ELSE owed
    /\ routers' = <<>>
    /\ domains' = <<>>
    /\ zones' = <<>>
    /\ domain_matches' = <<>>
    /\ account_domains' = <<>>
    /\ acc_idx' = 0
    /\ dom_idx' = 0
    /\ calls' = <<>>
    /\ handled' = <<>>
    /\ skip' = ""
    /\ wait_time' = 0
    /\ local_domains' = PassStartLocalDomains
    /\ fetched' = <<>>
    /\ UNCHANGED <<poll_interval, router_cache, consecutive_failures, tunnel, dns, synced,
                   streak, zones_owed>>

Next == Poll \/ GetZones \/ TunnelSync \/ DnsSync \/ Sleep

Spec == Init /\ [][Next]_vars

\* the loop is one thread that is never suspended for ever: a step that can be
\* taken is taken
FairSpec == Spec /\ WF_vars(Next)

---------------------------------------------------------------------------
(* Properties *)

InPass == pc \in {"GetZones", "PerAccount", "ReconcileDNS", "Sleeping"}
AllCallsOk == \A i \in DOMAIN calls : calls[i].ok
ProviderUnchanged == UNCHANGED <<tunnel, dns>>

\* C1: a pass whose route fetch fails or returns no route makes no provider
\* call and changes neither the provider nor the stored snapshot; it only
\* increments the failure counter, sleeps, and polls again.
C1_EmptyFetchTouchesNothing ==
    [][ /\ (pc = "Polling" /\ routers' = <<>>) =>
            /\ pc' = "Sleeping"
            /\ calls' = <<>>
            /\ router_cache' = router_cache
            /\ ProviderUnchanged
            /\ consecutive_failures' = consecutive_failures + 1
        /\ (pc = "Sleeping" /\ routers = <<>>) =>
            /\ calls = <<>>
            /\ pc' = "Polling"
            /\ router_cache' = router_cache
            /\ ProviderUnchanged ]_vars

\* a fetch fails after a pass that stored a snapshot
C1_Witness ==
    /\ pc = "Sleeping"
    /\ routers = <<>>
    /\ router_cache # <<>>
    /\ consecutive_failures = 2

\* C2: a write that failed in pass N is attempted again by the next pass that
\* fetches a non-empty route list, here the list of pass N itself.
C2_FailedWriteRetriedOnSameRoutes ==
    (pc = "Sleeping" /\ routers # <<>> /\ routers = router_cache /\ skip = "unchanged")
        => owed \subseteq AttemptedWrites(calls)

\* C3: an account whose tunnel get/update fails is retried within the pass:
\* the error reaches the per-account handler only after three attempts, with
\* sleeps of 1 s and 2 s between them, and it is the operation's own error.
C3_ThreeAttemptsBeforeHandler ==
    \A i \in DOMAIN handled :
        /\ handled[i].attempts = max_retries
        /\ handled[i].slept = <<1, 2>>
        /\ handled[i].raised = "error"

\* C4: a pass that fetches a non-empty route list equal to the stored one
\* makes no provider call and goes straight to sleeping.
C4_UnchangedRoutesSkipPass ==
    [][ /\ (pc = "Polling" /\ routers' # <<>> /\ routers' = router_cache) =>
            /\ pc' = "Sleeping"
            /\ calls' = <<>>
            /\ router_cache' = router_cache
            /\ ProviderUnchanged
        /\ (pc = "Sleeping" /\ skip = "unchanged") =>
            /\ calls = <<>>
            /\ pc' = "Polling"
            /\ ProviderUnchanged ]_vars

C4_Witness ==
    /\ pc = "Sleeping"
    /\ routers # <<>>
    /\ skip = "unchanged"
    /\ routers = router_cache
    /\ \E a \in Accounts : Len(tunnel[a]) = 1

\* the matched hostnames of an account that are not Local
PublicOf(acc) ==
    {domain_matches[i].domain :
        i \in {j \in DOMAIN domain_matches :
                  /\ domain_matches[j].account_id = acc
                  /\ domain_matches[j].domain \notin local_domains}}

HostnamesOf(ingress) ==
    {ingress[i].hostname : i \in {j \in DOMAIN ingress : "hostname" \in DOMAIN ingress[j]}}

\* the record the system is to keep for a hostname, by its classification
WantType(h) == IF h \in local_domains THEN "A" ELSE "CNAME"
WantContent(h) ==
    IF h \in local_domains THEN <<"10.0.0.5">> ELSE <<"T1", "cfargotunnel", "com">>
WantProxied(h) == h \notin local_domains

\* C5: after a pass in which every provider call succeeded, the tunnel of
\* every account with matched hostnames holds the rules of its matched Public
\* hostnames followed by the catch-all, and the zone of every matched
\* hostname holds a record of the desired type with the desired content and
\* proxied flag.
C5_PassConverges ==
    (pc = "Sleeping" /\ skip = "" /\ AllCallsOk) =>
        /\ \A i \in DOMAIN domain_matches :
            LET m == domain_matches[i]
                ingress == tunnel[m.account_id]
            IN /\ Len(ingress) = Cardinality(PublicOf(m.account_id)) + 1
               /\ HostnamesOf(ingress) = PublicOf(m.account_id)
               /\ ingress[Len(ingress)] = [service |-> "http_status:404"]
               /\ \A k \in 1..(Len(ingress) - 1) :
                    /\ "hostname" \in DOMAIN ingress[k]
                    /\ ingress[k].service = traefik_service_endpoint
               /\ \E r \in Range(dns[Key(m.zone_id, m.domain, WantType(m.domain))]) :
                    /\ r.content = WantContent(m.domain)
                    /\ r.proxied = WantProxied(m.domain)

\* a completed pass over two accounts that had to update a record
C5_Witness ==
    /\ pc = "Sleeping"
    /\ skip = ""
    /\ AllCallsOk
    /\ Len(account_domains) = 2
    /\ \E i \in DOMAIN calls : calls[i].op = "dns.update"
    /\ \E a \in Accounts : tunnel[a] = <<CatchAll>>

\* C6: a Local hostname is in no ingress list sent and its DNS writes are A
\* records, not proxied, with the service endpoint's host as content; a
\* Public hostname's DNS writes are CNAME records, proxied, pointing at
\* <tunnelId>.cfargotunnel.com.
C6_LocalAndPublicRecords ==
    \A i \in DOMAIN calls :
        LET c == calls[i] IN
        /\ c.op = "tunnel.update" => HostnamesOf(c.ingress) \cap local_domains = {}
        /\ IsDnsWrite(c) =>
            /\ c.type = WantType(c.name)
            /\ c.content = WantContent(c.name)
            /\ c.proxied = WantProxied(c.name)

\* one pass writes the record of a Local and of a Public hostname and sends
\* an ingress list
C6_Witness ==
    /\ \E i \in DOMAIN calls : IsDnsWrite(calls[i]) /\ calls[i].name \in local_domains
    /\ \E i \in DOMAIN calls : IsDnsWrite(calls[i]) /\ calls[i].name \notin local_domains
    /\ \E i \in DOMAIN calls :
          calls[i].op = "tunnel.update" /\ HostnamesOf(calls[i].ingress) # {}

WellFormedIngress(ingress) ==
    /\ Len(ingress) >= 1
    /\ ingress[Len(ingress)] = [service |-> "http_status:404"]
    /\ \A k \in 1..(Len(ingress) - 1) :
          /\ "hostname" \in DOMAIN ingress[k]
          /\ \A l \in 1..(Len(ingress) - 1) :
                ingress[k].hostname = ingress[l].hostname => k = l

\* C7: every ingress list sent is a sequence of hostname rules without a
\* repeated hostname followed by exactly one catch-all rule, in last
\* position; for an account without Public hostname it is the catch-all alone.
C7_IngressWellFormed ==
    \A i \in DOMAIN calls :
        calls[i].op = "tunnel.update" =>
            /\ WellFormedIngress(calls[i].ingress)
            /\ PublicOf(calls[i].account) = {} => calls[i].ingress = <<[service |-> "http_status:404"]>>

\* how many enabled, allow-listed routers of the pass name the hostname
Contributors(h) ==
    Cardinality({i \in DOMAIN routers :
                    RouterContributes(routers[i]) /\ h \in Range(HostArgs(routers[i].rule))})

\* a list of two hostname rules, one of a hostname that two routers contribute
C7_Witness ==
    \E i \in DOMAIN calls :
        /\ calls[i].op = "tunnel.update"
        /\ Len(calls[i].ingress) = 3
        /\ \E h \in HostnamesOf(calls[i].ingress) : Contributors(h) = 2

IsWriteFor(c, l, op) ==
    /\ c.op = op
    /\ c.zone = l.zone
    /\ c.name = l.name
    /\ c.type = l.type
    /\ c.content = WantContent(l.name)
    /\ c.proxied = WantProxied(l.name)

\* C8: after the records of the desired type and name are listed, the DNS
\* action is a create of the desired record when there is none, an update of
\* the first record when its content or proxied flag differs, and no write
\* when both are equal; a hostname gets at most one write call per pass.
C8_DnsAction ==
    /\ \A i \in DOMAIN calls :
        LET l == calls[i] IN
        (l.op = "dns.list" /\ l.ok) =>
            IF l.found = <<>>
            THEN i < Len(calls) /\ IsWriteFor(calls[i + 1], l, "dns.create")
            ELSE IF l.found[1].content # WantContent(l.name)
                    \/ l.found[1].proxied # WantProxied(l.name)
            THEN /\ i < Len(calls)
                 /\ IsWriteFor(calls[i + 1], l, "dns.update")
                 /\ calls[i + 1].id = l.found[1].id
            ELSE i = Len(calls) \/ ~IsDnsWrite(calls[i + 1])
    /\ \A i \in DOMAIN calls :
        IsDnsWrite(calls[i]) =>
            /\ i > 1 /\ calls[i - 1].op = "dns.list" /\ calls[i - 1].ok
            /\ calls[i - 1].name = calls[i].name
            /\ \A j \in DOMAIN calls : (IsDnsWrite(calls[j]) /\ calls[j].name = calls[i].name) => j = i

\* one pass updates the first of two records of a name and leaves the record
\* of another name as it is
C8_Witness ==
    /\ \E i \in DOMAIN calls :
          calls[i].op = "dns.update" /\ Len(calls[i - 1].found) = 2
    /\ \E i \in DOMAIN calls :
          /\ calls[i].op = "dns.list" /\ calls[i].ok /\ calls[i].found # <<>>
          /\ (i = Len(calls) \/ ~IsDnsWrite(calls[i + 1]))
          /\ pc = "Sleeping"

\* C9: when the DNS sync of a hostname runs again for a record whose last
\* write by an earlier run succeeded, it issues no create and no update.
C9_DnsSyncIdempotent ==
    \A i \in DOMAIN calls :
        (calls[i].op = "dns.list" /\ calls[i].ok /\ calls[i].resync) =>
            (i = Len(calls) \/ ~IsDnsWrite(calls[i + 1]))

\* a second run for a record that the first run had to write
C9_Witness ==
    /\ pc = "Sleeping"
    /\ \E i \in DOMAIN calls :
          calls[i].op = "dns.list" /\ calls[i].ok /\ calls[i].resync

\* the names of the listed zones that are a suffix of at least two labels of
\* the hostname
ZoneSuffixes(h) ==
    {zones[i].name : i \in {j \in DOMAIN zones :
        /\ Len(zones[j].name) >= 2
        /\ Len(zones[j].name) <= Len(h)
        /\ zones[j].name = SubSeq(h, Len(h) - Len(zones[j].name) + 1, Len(h))}}

\* C10: every hostname is resolved to the zone whose name is its longest
\* suffix of whole labels (at least two) among the listed zones, and to no
\* zone when no such suffix is a zone name.
C10_LongestSuffixMatch ==
    (InPass /\ zones # <<>>) =>
        /\ \A i \in DOMAIN domains :
            LET h == domains[i]
                hits == {j \in DOMAIN domain_matches : domain_matches[j].domain = h}
            IN IF ZoneSuffixes(h) = {}
               THEN hits = {}
               ELSE /\ Cardinality(hits) = 1
                    /\ \A j \in hits :
                        LET m == domain_matches[j] IN
                        /\ m.root_domain \in ZoneSuffixes(h)
                        /\ \A s \in ZoneSuffixes(h) : Len(s) <= Len(m.root_domain)
                        /\ \E k \in DOMAIN zones :
                              /\ zones[k].name = m.root_domain
                              /\ zones[k].id = m.zone_id
                              /\ zones[k].account.id = m.account_id
        /\ \A j \in DOMAIN domain_matches : domain_matches[j].domain \in Range(domains)

\* a.sub.ex.com goes to sub.ex.com although ex.com is listed too, and a
\* hostname of one label goes nowhere
C10_Witness ==
    /\ InPass
    /\ \E k \in DOMAIN zones : zones[k].name = <<"ex", "com">>
    /\ \E j \in DOMAIN domain_matches :
          /\ domain_matches[j].domain = <<"a", "sub", "ex", "com">>
          /\ domain_matches[j].root_domain = <<"sub", "ex", "com">>
    /\ <<"lan">> \in Range(domains)
    /\ Len(domain_matches) = 1

\* the calls of the pass made for an account, by operation
CallsOf(acc, op) == {i \in DOMAIN calls : calls[i].op = op /\ calls[i].account = acc}

\* the matched hostnames of an account
MatchedOf(acc) ==
    {domain_matches[i].domain :
        i \in {j \in DOMAIN domain_matches : domain_matches[j].account_id = acc}}

FailedTunnelCalls ==
    {i \in DOMAIN calls : calls[i].op \in {"tunnel.get", "tunnel.update"} /\ ~calls[i].ok}

\* C11: a DNS list, create or update that fails for one hostname is caught for
\* that hostname only: every hostname of an account whose tunnel update
\* succeeded is still listed in the same pass, and the per-account handler
\* runs only for failed tunnel calls.
C11_DnsErrorPerHostname ==
    (pc = "Sleeping" /\ skip = "") =>
        /\ \A a \in Accounts :
              (\E i \in CallsOf(a, "tunnel.update") : calls[i].ok) =>
                  \A h \in MatchedOf(a) :
                      \E j \in CallsOf(a, "dns.list") : calls[j].name = h
        /\ Len(handled) = Cardinality(FailedTunnelCalls)

\* a DNS call of one hostname fails, and a later hostname of the same account
\* is listed in the same pass; the per-account handler has not run
C11_Witness ==
    /\ pc = "Sleeping"
    /\ skip = ""
    /\ handled = <<>>
    /\ \E i, j \in DOMAIN calls :
          /\ i < j
          /\ calls[i].op \in {"dns.list", "dns.create", "dns.update"}
          /\ ~calls[i].ok
          /\ calls[j].op = "dns.list"
          /\ calls[j].account = calls[i].account
          /\ calls[j].name # calls[i].name

\* C12: a tunnel get or update that raises for one account is caught for that
\* account: the pass still gets the tunnel of every account exactly once, and
\* the loop's failure handler does not run (the failure counter stays 0).
C12_TunnelErrorPerAccount ==
    /\ handled # <<>> => (skip # "error" /\ consecutive_failures = 0)
    /\ (pc = "Sleeping" /\ skip = "") =>
          \A k \in DOMAIN account_domains :
              Cardinality(CallsOf(account_domains[k].account_id, "tunnel.get")) = 1

\* the tunnel call of one account fails and the tunnel of another account is
\* got later in the same pass, which ends normally
C12_Witness ==
    /\ pc = "Sleeping"
    /\ skip = ""
    /\ consecutive_failures = 0
    /\ \E i \in FailedTunnelCalls :
          \E j \in DOMAIN calls :
              /\ i < j
              /\ calls[j].op = "tunnel.get"
              /\ calls[j].account # calls[i].account

\* the listed zone whose name is the longest suffix of the hostname
BestZone(h) ==
    LET suffixes == ZoneSuffixes(h)
    IN zones[CHOOSE k \in DOMAIN zones :
                 /\ zones[k].name \in suffixes
                 /\ \A s \in suffixes : Len(s) <= Len(zones[k].name)]

NamesMatched(h, acc) ==
    /\ h \in Range(domains)
    /\ ZoneSuffixes(h) # {}
    /\ BestZone(h).account.id = acc

\* C13: every tunnel rule and every DNS call of a pass names a hostname of the
\* pass that matched a zone, with the zone and the account of that match; when
\* no hostname matches a zone the pass makes no tunnel and no DNS call.
C13_WritesOnlyForMatches ==
    InPass =>
        /\ \A i \in DOMAIN calls :
              /\ calls[i].op = "tunnel.update" =>
                    \A h \in HostnamesOf(calls[i].ingress) : NamesMatched(h, calls[i].account)
              /\ calls[i].op \in {"dns.list", "dns.create", "dns.update"} =>
                    /\ NamesMatched(calls[i].name, calls[i].account)
                    /\ calls[i].zone = BestZone(calls[i].name).id
        /\ (\A h \in Range(domains) : ZoneSuffixes(h) = {}) =>
              \A i \in DOMAIN calls : calls[i].op = "zones.list"

\* a pass with a hostname that matches no zone and one that does: the tunnel
\* is updated and a record written for the second
C13_Witness ==
    /\ pc = "Sleeping"
    /\ zones # <<>>
    /\ \E h \in Range(domains) : ZoneSuffixes(h) = {}
    /\ \E i \in DOMAIN calls : calls[i].op = "tunnel.update" /\ Len(calls[i].ingress) > 1
    /\ \E i \in DOMAIN calls : IsDnsWrite(calls[i]) /\ calls[i].ok

\* the hostname is a backtick-quoted argument of a Host(...) call of the rule
QuotedHostOf(h, router) ==
    \E c \in DOMAIN router.rule :
        /\ router.rule[c].fn = "Host"
        /\ \E a \in DOMAIN router.rule[c].args :
              router.rule[c].args[a] = [quoted |-> TRUE, text |-> h]

EnabledAndAllowed(router) ==
    /\ router.status = "enabled"
    /\ Range(router.entryPoints) \cap {"web", "local"} # {}

\* the pass has just extracted the hostnames of the fetched routes
Extracted == pc = "GetZones" \/ (pc = "Sleeping" /\ skip = "no_domains")

\* C14: the hostnames extracted in a pass are exactly the backtick-quoted
\* Host(...) arguments of the routes that are enabled and have an entrypoint
\* of the allow-list, TLS-enabled routes included although the skip-TLS flag
\* is set, whatever the order of the routes.
C14_ExtractedHostnames ==
    Extracted =>
        /\ skip_tls_routes
        /\ Range(domains) =
              {h \in Hosts : \E i \in DOMAIN routers :
                                EnabledAndAllowed(routers[i]) /\ QuotedHostOf(h, routers[i])}
        /\ \A p \in Perms(Range(routers)) : ExtractDomains(p) = Range(domains)

\* a pass whose only route of a.sub.ex.com is TLS-enabled: the hostname is
\* extracted
C14_Witness ==
    /\ Extracted
    /\ <<"a", "sub", "ex", "com">> \in Range(domains)
    /\ \A i \in DOMAIN routers :
          QuotedHostOf(<<"a", "sub", "ex", "com">>, routers[i]) => has_tls_enabled(routers[i])

\* C15 as stated: the backoff after a failed or empty fetch is
\* min(20, pollInterval * 2^k), k being the number of failed or empty fetches
\* since the last fetch that returned routes.
C15_BackoffCountsFetchFailures ==
    (pc = "Sleeping" /\ skip = "no_routers") =>
        wait_time = Min(20, poll_interval * Pow2(streak.fetch))

\* C15: the backoff after a failed pass is min(20, pollInterval * 2^k), k
\* being the number of failed passes since the last fetch that returned
\* routes, where a pass fails when its fetch fails or is empty and also when
\* an exception reaches the loop's handler; a fetch that returns routes resets
\* the counter, and the sleep never exceeds the cap.
C15_BackoffCountsAllFailures ==
    /\ consecutive_failures = streak.fetch + streak.loop
    /\ (pc = "Sleeping" /\ skip \in {"no_routers", "error"}) =>
          /\ wait_time = Min(20, poll_interval * Pow2(streak.fetch + streak.loop))
          /\ wait_time <= 20
          /\ streak.fetch + streak.loop >= 1
    /\ (InPass /\ skip \notin {"no_routers", "error"}) =>
          (consecutive_failures = 0 /\ routers # <<>>)

\* the fetch fails in the pass after one whose zone listing failed: the first
\* failed fetch since routes were returned sleeps the backoff of k = 2
C15_Witness ==
    /\ pc = "Sleeping"
    /\ skip = "no_routers"
    /\ streak = [fetch |-> 1, loop |-> 1]
    /\ wait_time = 20

\* C16: a skipped pass sleeps as a completed one does, pollInterval plus a
\* jitter from [0, pollInterval/2]: wherever the pass about to start can be
\* skipped because the routes are unchanged, it can be skipped with a sleep of
\* 1.5 * pollInterval, a duration that a completed pass can sleep.
C16_SkipSleepIsJittered ==
    (pc = "Polling" /\ router_cache # <<>>) =>
        ENABLED (/\ Poll
                 /\ skip' = "unchanged"
                 /\ wait_time' = poll_interval + (poll_interval \div 2))

\* C17: the loop has no terminal state: whatever fails, it comes back to
\* Polling again and again.
C17_AlwaysBackToPolling == []<>(pc = "Polling")

\* back at Polling after a failed zone listing and a failed fetch
C17_Witness ==
    /\ pc = "Polling"
    /\ streak.loop >= 1
    /\ streak.fetch >= 1
    /\ consecutive_failures = MaxFailures

\* C18: a failed zone listing is recovered at the loop level without a change
\* of the routes: a pass that fetches the routes of the pass whose zone
\* listing failed is not skipped as unchanged, it lists the zones again.
C18_ZoneFailureRecovered ==
    (pc = "Sleeping" /\ skip = "unchanged") => ~zones_owed

\* the create and update calls of the pass for the record of a call
DnsAttempts(c) ==
    {j \in DOMAIN calls : IsDnsWrite(calls[j]) /\ calls[j].zone = c.zone
                          /\ calls[j].name = c.name /\ calls[j].type = c.type}

\* C19: a DNS create or update that fails is attempted again in the same
\* pass, up to 3 attempts, before the hostname is given up: at the end of a
\* pass every failed write is followed by another attempt for the same
\* record, unless it was the third.
C19_DnsWriteRetriedInPass ==
    pc = "Sleeping" =>
        \A i \in DOMAIN calls :
            (IsDnsWrite(calls[i]) /\ ~calls[i].ok) =>
                \/ \E j \in DnsAttempts(calls[i]) : j > i
                \/ Cardinality(DnsAttempts(calls[i])) = max_retries

MarksLocal(router) == Range(router.entryPoints) \cap {"local", "office"} # {}

\* C20: in each pass a hostname is Local exactly when one of the routes that
\* contribute it in that pass has 'local' or 'office' among its entrypoints,
\* whatever the order of the routes and whatever the other routes of the
\* hostname; nothing of the classification of an earlier pass is kept.
C20_LocalRecomputedEachPass ==
    Extracted =>
        /\ local_domains =
              {h \in Hosts : \E i \in DOMAIN routers :
                                /\ EnabledAndAllowed(routers[i])
                                /\ QuotedHostOf(h, routers[i])
                                /\ MarksLocal(routers[i])}
        /\ \A p \in Perms(Range(routers)) : ExtractLocalDomains(p) = local_domains

\* b.ex.com was Local in an earlier pass (its A record was written) and is
\* extracted in this pass from routes none of which marks it Local
C20_Witness ==
    /\ Extracted
    /\ <<"b", "ex", "com">> \in Range(domains)
    /\ <<"b", "ex", "com">> \notin local_domains
    /\ Key("Z1", <<"b", "ex", "com">>, "A") \in synced

\* C21: get_routers removes a fetched route exactly when its entrypoint set
\* is {"traefik"}; every other route is returned, one with traefik and
\* another entrypoint and one with an empty entrypoint list included.
C21_OnlyTraefikOnlyRemoved ==
    InPass =>
        routers = SelectSeq(fetched, LAMBDA r : Range(r.entryPoints) # {"traefik"})

\* the routes of the pass that contribute the hostname, by position
RoutesOf(h) ==
    {i \in DOMAIN routers : EnabledAndAllowed(routers[i]) /\ QuotedHostOf(h, routers[i])}

FirstRouteOf(h) == CHOOSE i \in RoutesOf(h) : \A j \in RoutesOf(h) : i <= j

\* h appears in the fetched route list before g does
AppearsBefore(h, g) ==
    \/ FirstRouteOf(h) < FirstRouteOf(g)
    \/ /\ FirstRouteOf(h) = FirstRouteOf(g)
       /\ FirstIndex(HostArgs(routers[FirstRouteOf(h)].rule), h)
             < FirstIndex(HostArgs(routers[FirstRouteOf(h)].rule), g)

\* C22: the hostname rules of an ingress list are in the order in which the
\* hostnames first appear in the fetched route list (route order, then
\* argument order in a rule).
C22_IngressInRouteOrder ==
    \A i \in DOMAIN calls :
        calls[i].op = "tunnel.update" =>
            \A p, q \in 1..(Len(calls[i].ingress) - 1) :
                p < q => AppearsBefore(calls[i].ingress[p].hostname,
                                       calls[i].ingress[q].hostname)

\* the hostname the DNS loop is at, and the key of its desired record
CurMatch == account_domains[acc_idx].zone_configs[dom_idx]
CurKey == Key(CurMatch.zone_id, CurMatch.domain, WantType(CurMatch.domain))

NewCalls == {i \in DOMAIN calls' : i > Len(calls)}

FirstDiffers(records, h) ==
    records[1].content # WantContent(h) \/ records[1].proxied # WantProxied(h)

\* C23: when the zone holds several records of the desired type and name,
\* only the first is compared with the desired record and, when it differs,
\* updated; no create is issued and the other records stay as they are.
C23_DuplicatesFirstOnly ==
    [][ (pc = "ReconcileDNS" /\ Len(dns[CurKey]) >= 2) =>
            LET old == dns[CurKey]
                h == CurMatch.domain
            IN /\ Len(dns'[CurKey]) = Len(old)
               /\ \A n \in 2..Len(old) : dns'[CurKey][n] = old[n]
               /\ \A i \in NewCalls :
                     /\ calls'[i].op \in {"dns.list", "dns.update"}
                     /\ calls'[i].op = "dns.update" =>
                           (calls'[i].id = old[1].id /\ FirstDiffers(old, h))
               /\ (\A i \in NewCalls : calls'[i].ok) =>
                     /\ dns'[CurKey][1] = Rec(old[1].id, WantContent(h), WantProxied(h))
                     /\ FirstDiffers(old, h) => \E i \in NewCalls : calls'[i].op = "dns.update"
      ]_vars

\* the listing of the A records of b.ex.com found two, the first was updated
\* and the second is as it was found
C23_Witness ==
    \E i \in DOMAIN calls :
        /\ calls[i].op = "dns.list"
        /\ Len(calls[i].found) = 2
        /\ i < Len(calls)
        /\ calls[i + 1].op = "dns.update"
        /\ calls[i + 1].ok
        /\ LET now == dns[Key(calls[i].zone, calls[i].name, calls[i].type)]
           IN /\ Len(now) = 2
              /\ now[1] # calls[i].found[1]
              /\ now[2] = calls[i].found[2]
              /\ now[2].content # now[1].content

DnsOps == {"dns.list", "dns.create", "dns.update"}

\* C24: every DNS call of a pass comes after a successful tunnel update of
\* the same account in that pass; an account whose tunnel get or update
\* failed gets no DNS call in that pass.
C24_DnsAfterTunnelUpdate ==
    /\ \A j \in DOMAIN calls :
          calls[j].op \in DnsOps =>
              \E i \in 1..(j - 1) :
                  /\ calls[i].op = "tunnel.update"
                  /\ calls[i].ok
                  /\ calls[i].account = calls[j].account
    /\ \A i \in FailedTunnelCalls :
          \A j \in DOMAIN calls :
              calls[j].op \in DnsOps => calls[j].account # calls[i].account

\* a finished pass with two accounts: the tunnel call of one failed and it
\* got no DNS call, the other was updated and its hostname listed
C24_Witness ==
    /\ pc = "Sleeping"
    /\ skip = ""
    /\ Len(account_domains) = 2
    /\ \E i \in FailedTunnelCalls :
          \E j \in DOMAIN calls :
              /\ calls[j].op \in DnsOps
              /\ calls[j].account # calls[i].account

\* C25: the DNS sync reads and writes only records of the desired type of
\* the hostname it is at and never deletes one: a step changes at most the
\* records under that key, keeps every record there, and leaves the records
\* of the other type and of every other name as they are.
C25_OtherRecordsUntouched ==
    [][ /\ \A k \in Keys :
              dns'[k] # dns[k] =>
                  /\ pc = "ReconcileDNS"
                  /\ k = CurKey
                  /\ Len(dns'[k]) >= Len(dns[k])
                  /\ \A n \in DOMAIN dns[k] : dns'[k][n].id = dns[k][n].id
        /\ \A i \in NewCalls :
              calls'[i].op \in DnsOps =>
                  /\ calls'[i].name \in Range(domains)
                  /\ calls'[i].type = WantType(calls'[i].name)
                  /\ Key(calls'[i].zone, calls'[i].name, calls'[i].type) = CurKey
      ]_vars

\* b.ex.com was Public in an earlier pass, which wrote its CNAME, and is Local
\* in this one, which wrote its A record: the CNAME is still there
C25_Witness ==
    /\ pc = "Sleeping"
    /\ <<"b", "ex", "com">> \in local_domains
    /\ Key("Z1", <<"b", "ex", "com">>, "CNAME") \in synced
    /\ Key("Z1", <<"b", "ex", "com">>, "A") \in synced
    /\ dns[Key("Z1", <<"b", "ex", "com">>, "CNAME")] # <<>>
    /\ \E i \in DOMAIN calls :
          IsDnsWrite(calls[i]) /\ calls[i].ok /\ calls[i].name = <<"b", "ex", "com">>

\* the ingress list of an account by this pass's matches and classification
PlanFor(acc) ==
    LET public == SelectSeq(domain_matches,
                            LAMBDA m : m.account_id = acc /\ m.domain \notin local_domains)
    IN [n \in DOMAIN public |->
           [hostname |-> public[n].domain,
            service |-> traefik_service_endpoint,
            originRequest |-> [noTLSVerify |-> TRUE,
                               httpHostHeader |-> public[n].domain,
                               originServerName |-> public[n].domain]]]
       \o <<[service |-> "http_status:404"]>>

\* C26 as stated: in a pass that reaches the per-account step, a tunnel
\* update is attempted for every account that has a matched hostname.
C26_UpdateForEveryAccount ==
    (pc = "Sleeping" /\ skip = "") =>
        \A j \in DOMAIN domain_matches :
            CallsOf(domain_matches[j].account_id, "tunnel.update") # {}

\* C26: in a pass that reaches the per-account step, the tunnel of every
\* account that has a matched hostname is fetched once, and every fetch that
\* succeeds is followed by an update whose ingress is the plan of this pass's
\* matched hostnames and their classification, whatever was fetched; an
\* account whose fetch fails gets no update.
C26_UpdateWheneverFetched ==
    /\ \A i \in DOMAIN calls :
          /\ (calls[i].op = "tunnel.get" /\ calls[i].ok) =>
                /\ i < Len(calls)
                /\ calls[i + 1].op = "tunnel.update"
                /\ calls[i + 1].account = calls[i].account
                /\ calls[i + 1].ingress = PlanFor(calls[i].account)
          /\ calls[i].op = "tunnel.update" =>
                /\ i > 1
                /\ calls[i - 1].op = "tunnel.get"
                /\ calls[i - 1].ok
                /\ calls[i - 1].account = calls[i].account
    /\ (pc = "Sleeping" /\ skip = "") =>
          \A j \in DOMAIN domain_matches :
              Cardinality(CallsOf(domain_matches[j].account_id, "tunnel.get")) = 1

\* the fetched configuration already equals the plan, hostname rule included,
\* and the update is issued all the same
C26_Witness ==
    \E i \in DOMAIN calls :
        /\ calls[i].op = "tunnel.get"
        /\ calls[i].ok
        /\ calls[i + 1].op = "tunnel.update"
        /\ calls[i + 1].ok
        /\ calls[i + 1].resync
        /\ Len(calls[i + 1].ingress) > 1

====
